---- MODULE Spec2Model ----
(***************************************************************************)
(* Model of the WisprFlow transcription clients of                         *)
(* src/agent/wisprflow_stt.py: the streaming client,                       *)
(* WisprFlowWebSocketSTT.process, and the batch client,                    *)
(* WisprFlowSTTNode.process with transcribe_with_wisprflow.                *)
(*                                                                         *)
(* process is an async generator.  The model follows it from one           *)
(* suspension point (await or yield) to the next: pc names the point the   *)
(* coroutine is suspended at, and one action is the code that runs from    *)
(* that point to the next one.  The server, the upstream audio source, the *)
(* consumer of the event sequence and the task's canceller are the         *)
(* environment: what they do is chosen with \E in the actions.             *)
(***************************************************************************)
EXTENDS Integers, Sequences, FiniteSets, TLC

\* ------------------------------------------------------------------ bounds

\* Frames the upstream audio source delivers at most before it ends.
MaxFrames == 3

\* Server messages the client reads at most after the authentication ack.
MaxRecv == 2

\* The clock of the batch chunker stops at this many seconds.
MaxTime == 11

\* ------------------------------------------------------------------- audio

\* The rate the backend requires (the literal 16000 of the code) and LiveKit's
\* capture rate.
TargetRate == 16000

CaptureRate == 48000

\* One sample of the model stands for a block of this many samples of the
\* program, so that a 16 kHz frame of n model samples lasts n seconds.
BlockSamples == 16000

\* The data of the k-th frame (k = 1, 2, ...) of the upstream source: int16
\* samples, all different, so that a byte dropped, repeated or moved shows.
\* A "silent" source delivers frames without data.
FrameLen(k, rate) ==
    IF rate = TargetRate THEN 3 - ((k - 1) % 3) ELSE 4 + ((k * k) % 3)

AudioFrame(k, rate, shape) ==
    [ sample_rate |-> rate,
      num_channels |-> 1,
      data |-> IF shape = "silent" THEN << >>
               ELSE [j \in 1..FrameLen(k, rate) |-> 256 * k + j] ]

NoFrame == [sample_rate |-> 0, num_channels |-> 1, data |-> << >>]

\* frame.data.tobytes(): each int16 sample as two bytes, low byte first.
ToBytes(data) ==
    [i \in 1..(2 * Len(data)) |->
        IF i % 2 = 1 THEN data[(i + 1) \div 2] % 256
                     ELSE data[i \div 2] \div 256]

\* rtc.AudioResampler(input_rate, output_rate=16000, num_channels), as far as
\* the code relies on it: push keeps the input samples that do not yet make up
\* an output sample and returns the output samples the others give, one for
\* each input_rate / 16000 input samples.
NoResampler == [on |-> FALSE, ratio |-> 1, carry |-> << >>]

NewResampler(input_rate) ==
    [on |-> TRUE, ratio |-> input_rate \div TargetRate, carry |-> << >>]

PushInput(r, frame) == r.carry \o frame.data

PushOutput(r, frame) ==
    [i \in 1..(Len(PushInput(r, frame)) \div r.ratio) |->
        PushInput(r, frame)[(i - 1) * r.ratio + 1]]

PushState(r, frame) ==
    [r EXCEPT !.carry =
        SubSeq(PushInput(r, frame),
               (Len(PushInput(r, frame)) \div r.ratio) * r.ratio + 1,
               Len(PushInput(r, frame)))]

\* The 16 kHz PCM bytes of a frame: those of the resampled frames joined, or
\* the frame's own bytes when there is no resampler.
Pcm16k(r, frame) ==
    IF r.on THEN ToBytes(PushOutput(r, frame)) ELSE ToBytes(frame.data)

\* An unsigned integer in n bytes, low byte first.
LE(x, n) == [i \in 1..n |-> (x \div (256 ^ (i - 1))) % 256]

\* The header the wave module writes for setnchannels(1), setsampwidth(2),
\* setframerate(sample_rate) and n bytes of frames: RIFF, the size, WAVE, the
\* "fmt " chunk (PCM, channels, rate, byte rate, block align, bits), "data",
\* the data size.
WavHeader(n, sample_rate) ==
    << 82, 73, 70, 70 >> \o LE(36 + n, 4) \o << 87, 65, 86, 69 >>
    \o << 102, 109, 116, 32 >> \o LE(16, 4) \o LE(1, 2) \o LE(1, 2)
    \o LE(sample_rate, 4) \o LE(sample_rate * 2, 4) \o LE(2, 2) \o LE(16, 2)
    \o << 100, 97, 116, 97 >> \o LE(n, 4)

\* base64.b64encode: each character as its index in the alphabet, 64 for "=".
Base64(b) ==
    [i \in 1..(4 * ((Len(b) + 2) \div 3)) |->
        LET q == (i - 1) \div 4
            r == (i - 1) % 4
            b0 == b[3 * q + 1]
            b1 == IF 3 * q + 2 <= Len(b) THEN b[3 * q + 2] ELSE 0
            b2 == IF 3 * q + 3 <= Len(b) THEN b[3 * q + 3] ELSE 0
            triple == b0 * 65536 + b1 * 256 + b2
        IN  IF (r = 2 /\ 3 * q + 2 > Len(b)) \/ (r = 3 /\ 3 * q + 3 > Len(b))
               THEN 64
               ELSE (triple \div (64 ^ (3 - r))) % 64]

\* pcm_to_wav_base64(pcm_data, sample_rate)
pcm_to_wav_base64(pcm_data, sample_rate) ==
    Base64(WavHeader(Len(pcm_data), sample_rate) \o pcm_data)

\* ------------------------------------------------------- values of the wire

\* msg.get("final") is tested for truthiness; the flag may be missing.
FinalFlags == {"true", "false", "absent"}

Truthy(flag) == flag = "true"

Msg(s, t, f) == [status |-> s, text |-> t, final |-> f]

\* Server -> client JSON messages (the WebSocket wire contract), with the texts
\* of the end-to-end scenario, an empty text and an unrecognised status.
ServerMsgs ==
    { Msg("auth", "", "absent"),
      Msg("text", "hello", "false"),
      Msg("text", "hello", "absent"),
      Msg("text", "hello world", "true"),
      Msg("text", "", "true"),
      Msg("text", "", "false"),
      Msg("info", "", "absent"),
      Msg("error", "", "absent"),
      Msg("ping", "", "absent") }

NoMsg == Msg("none", "", "absent")

AuthMsg ==
    [type |-> "auth", position |-> -1, total_packets |-> -1,
     audio |-> << >>, duration |-> 0]

\* duration = len(pcm_16k) / (16000 * 2), in seconds.
Duration(pcm_16k) == (Len(pcm_16k) * BlockSamples) \div (TargetRate * 2)

\* Mutant of AppendMsg: packet_count is incremented before the send, so the
\* positions start at 1.
AppendMsg_OneBased(packet_count, pcm_16k) ==
    [type |-> "append", position |-> packet_count + 1, total_packets |-> -1,
     audio |-> pcm_to_wav_base64(pcm_16k, TargetRate),
     duration |-> Duration(pcm_16k)]

AppendMsg(packet_count, pcm_16k) ==
    [type |-> "append", position |-> packet_count, total_packets |-> -1,
     audio |-> pcm_to_wav_base64(pcm_16k, TargetRate),
     duration |-> Duration(pcm_16k)]

\* Mutant of CommitMsg: the commit declares the last position, not the count.
CommitMsg_LastPosition(packet_count) ==
    [type |-> "commit", position |-> -1, total_packets |-> packet_count - 1,
     audio |-> << >>, duration |-> 0]

CommitMsg(packet_count) ==
    [type |-> "commit", position |-> -1, total_packets |-> packet_count,
     audio |-> << >>, duration |-> 0]

SpeechEvent(kind, m) == [kind |-> kind, text |-> m.text, language |-> "ka"]

\* -------------------------------------------------------------------- state

VARIABLES
    pc,            \* the suspension point of process
    api_key,       \* self._api_key is non-empty
    wsOpen,        \* the WebSocket connection is open
    opened,        \* ws_connect has succeeded once (history)
    sent,          \* the client -> server messages, in send order
    auth_resp,     \* the authentication acknowledgment read, or NoMsg
    packet_count,  \* the local packet_count
    consumed,      \* frames taken from the upstream source (history)
    exhausted,     \* the async for over audio has ended (history)
    received,      \* messages read after the ack, with the phase (history)
    events,        \* the events yielded to the consumer, in order
    last_final,    \* the drain loop's msg.get("final") of the yielded message
    outcome,       \* how process ended
    log,           \* the logger.error calls made
    rate_in,       \* the sample rate of the upstream source's frames
    shape,         \* "pcm": the frames carry samples; "silent": they carry none
    resampler,     \* the local resampler of the streaming client
    pcm_16k,       \* the 16 kHz bytes of the frame whose append is being sent
    resampled,     \* the 16 kHz bytes of all frames consumed so far (history)
    inbox          \* server messages that have arrived and are not read yet

\* The state of the batch client, WisprFlowSTTNode.process.
VARIABLES
    pcB,           \* the suspension point of the batch process
    pcm_buffer,    \* the local pcm_buffer
    chunk_start,   \* the local chunk_start
    now,           \* time.monotonic(), in seconds
    total_frames,  \* the local total_frames
    resamplerB,    \* self._resampler
    buffered,      \* all bytes ever put into pcm_buffer (history)
    calls,         \* the calls of transcribe_with_wisprflow, in order (history)
    inflight,      \* calls of transcribe_with_wisprflow that have not returned
    eventsB,       \* the events yielded to the consumer, in order
    endedB,        \* the async for over audio has ended (history)
    outcomeB,      \* how the batch process ended
    logB           \* the logger.error calls made

sourceVars == << rate_in, shape >>

batchVars == << pcB, pcm_buffer, chunk_start, now, total_frames, resamplerB,
                buffered, calls, inflight, eventsB, endedB, outcomeB, logB >>

streamVars == << pc, wsOpen, opened, sent, auth_resp, packet_count,
                 consumed, exhausted, received, events, last_final, outcome,
                 log, resampler, pcm_16k, resampled, inbox >>

vars == << api_key, sourceVars, streamVars, batchVars >>

AwaitPoints == { "connect", "auth_send", "auth_recv", "next_frame",
                 "send_append", "poll", "send_commit", "drain" }

YieldPoints == { "yield_active", "yield_drain" }

Init ==
    /\ pc = "start"
    /\ api_key \in BOOLEAN
    /\ wsOpen = FALSE
    /\ opened = FALSE
    /\ sent = << >>
    /\ auth_resp = NoMsg
    /\ packet_count = 0
    /\ consumed = 0
    /\ exhausted = FALSE
    /\ received = << >>
    /\ events = << >>
    /\ last_final = FALSE
    /\ outcome = "running"
    /\ log = << >>
    /\ rate_in \in {TargetRate, CaptureRate}
    /\ shape \in {"pcm", "silent"}
    /\ resampler = NoResampler
    /\ pcm_16k = << >>
    /\ resampled = << >>
    /\ inbox = << >>
    /\ pcB = "idle"
    /\ pcm_buffer = << >>
    /\ chunk_start = 0
    /\ now = 0
    /\ total_frames = 0
    /\ resamplerB = NoResampler
    /\ buffered = << >>
    /\ calls = << >>
    /\ inflight = 0
    /\ eventsB = << >>
    /\ endedB = FALSE
    /\ outcomeB = "running"
    /\ logB = << >>

\* ---------------------------------------------------------- leaving process

\* Mutant of WsAfterExit: the connection is closed by an explicit close on the
\* return and `except Exception` paths only, which CancelledError and
\* GeneratorExit pass by.
WsAfterExit_CloseOnReturnOnly(how) == how \in {"cancelled", "aclosed"}

\* Whether the connection is still open once the `async with
\* session.ws_connect(ws_url) as ws` block has been left the way `how` says:
\* its __aexit__ closes the connection on a return, on an exception and on a
\* cancellation alike.
WsAfterExit(how) == FALSE

\* What the caller iterating the event sequence is handed when process ends.
\* A return, and an exception caught by `except Exception`, both end the
\* generator normally; CancelledError and GeneratorExit are BaseExceptions and
\* pass the handler.
Surfaced(how) ==
    CASE how \in {"no_api_key", "auth_failed", "drained", "exception"}
             -> "StopAsyncIteration"
      [] how = "cancelled" -> "CancelledError"
      [] how = "aclosed" -> "GeneratorExit"
      [] OTHER -> "none"

\* process ends: the context managers are left, the error (if any) is logged.
Leave(how, entries) ==
    /\ pc' = "done"
    /\ wsOpen' = (wsOpen /\ WsAfterExit(how))
    /\ outcome' = how
    /\ log' = log \o entries

\* An exception raised inside the try block: caught and logged at the end.
Raise == Leave("exception", << "ws_exception" >>)

\* ----------------------------------------------------- the steps of process

\* api_key = self._api_key; if not api_key: log and return.
CheckApiKey ==
    /\ pc = "start"
    /\ IF api_key
          THEN /\ pc' = "connect"
               /\ UNCHANGED << wsOpen, outcome, log >>
          ELSE Leave("no_api_key", << "no_api_key" >>)
    /\ UNCHANGED << sourceVars, batchVars, resampler, pcm_16k, resampled, inbox,
                    api_key, opened, sent, auth_resp, packet_count, consumed,
                    exhausted, received, events, last_final >>

\* async with session.ws_connect(ws_url) as ws: the connection opens or the
\* connect raises.
Connect ==
    /\ pc = "connect"
    /\ \/ /\ pc' = "auth_send"
          /\ wsOpen' = TRUE
          /\ opened' = TRUE
          /\ UNCHANGED << outcome, log >>
       \/ /\ Raise
          /\ UNCHANGED opened
    /\ UNCHANGED << sourceVars, batchVars, resampler, pcm_16k, resampled, inbox,
                    api_key, sent, auth_resp, packet_count, consumed,
                    exhausted, received, events, last_final >>

\* await ws.send_json({"type": "auth", ...})
SendAuth ==
    /\ pc = "auth_send"
    /\ \/ /\ sent' = Append(sent, AuthMsg)
          /\ pc' = "auth_recv"
          /\ UNCHANGED << wsOpen, outcome, log >>
       \/ /\ Raise
          /\ UNCHANGED sent
    /\ UNCHANGED << sourceVars, batchVars, resampler, pcm_16k, resampled, inbox,
                    api_key, opened, auth_resp, packet_count, consumed,
                    exhausted, received, events, last_final >>

\* Mutant of AuthOk: only an explicit error acknowledgment counts as a failure.
AuthOk_NotError(m) == m.status # "error"

\* auth_resp.get("status") != "auth" is the failure test.
AuthOk(m) == m.status = "auth"

\* auth_resp = await ws.receive_json(); on a failed ack log and return,
\* otherwise packet_count = 0 and the frame loop starts.
RecvAuth ==
    /\ pc = "auth_recv"
    /\ \/ \E m \in ServerMsgs :
            /\ auth_resp' = m
            /\ IF AuthOk(m)
                  THEN /\ pc' = "next_frame"
                       /\ packet_count' = 0
                       /\ UNCHANGED << wsOpen, outcome, log >>
                  ELSE /\ Leave("auth_failed", << "auth_failed" >>)
                       /\ UNCHANGED packet_count
       \/ /\ Raise
          /\ UNCHANGED << auth_resp, packet_count >>
    /\ UNCHANGED << sourceVars, batchVars, resampler, pcm_16k, resampled, inbox,
                    api_key, opened, sent, consumed, exhausted, received,
                    events, last_final >>

\* The resampler the frame is pushed through: created on the first frame
\* (packet_count == 0) if the frame is not at 16 kHz.
ResamplerFor(r, count, frame) ==
    IF count = 0 /\ frame.sample_rate # TargetRate
       THEN NewResampler(frame.sample_rate)
       ELSE r

\* async for frame in audio: the source hands over the next frame, which is
\* resampled and encoded up to the await of the send; or the source ends and
\* the loop is left for the commit; or the source raises.
NextFrame ==
    /\ pc = "next_frame"
    /\ \/ /\ consumed < MaxFrames
          /\ LET frame == AudioFrame(consumed + 1, rate_in, shape)
                 r == ResamplerFor(resampler, packet_count, frame)
             IN  /\ pcm_16k' = Pcm16k(r, frame)
                 /\ resampled' = resampled \o Pcm16k(r, frame)
                 /\ resampler' = IF r.on THEN PushState(r, frame) ELSE r
          /\ consumed' = consumed + 1
          /\ pc' = "send_append"
          /\ UNCHANGED << exhausted, wsOpen, outcome, log >>
       \/ /\ exhausted' = TRUE
          /\ pc' = "send_commit"
          /\ UNCHANGED << consumed, wsOpen, outcome, log, resampler, pcm_16k,
                          resampled >>
       \/ /\ Raise
          /\ UNCHANGED << consumed, exhausted, resampler, pcm_16k, resampled >>
    /\ UNCHANGED << sourceVars, batchVars, inbox,
                    api_key, opened, sent, auth_resp, packet_count,
                    received, events, last_final >>

\* await ws.send_json({"type": "append", "audio": wav_b64,
\* "position": packet_count, "duration": duration}); packet_count += 1.
\* A send that raises has sent nothing.
SendAppend ==
    /\ pc = "send_append"
    /\ \/ /\ sent' = Append(sent, AppendMsg(packet_count, pcm_16k))
          /\ packet_count' = packet_count + 1
          /\ pc' = "poll"
          /\ UNCHANGED << wsOpen, outcome, log >>
       \/ /\ Raise
          /\ UNCHANGED << sent, packet_count >>
    /\ UNCHANGED << sourceVars, batchVars, resampler, pcm_16k, resampled, inbox,
                    api_key, opened, auth_resp, consumed, exhausted, received,
                    events, last_final >>

\* Mutant of Emits: the text is not tested, an empty transcript yields an event.
Emits_AnyText(m) == m.status = "text"

\* msg.get("status") == "text" and msg.get("text"): the message yields an event.
Emits(m) == m.status = "text" /\ m.text # ""

\* The event type of the poll after a send: FINAL_TRANSCRIPT if
\* msg.get("final"), else INTERIM_TRANSCRIPT.
ActiveKind(m) == IF Truthy(m.final) THEN "final" ELSE "interim"

\* The event type of the drain loop: FINAL_TRANSCRIPT, whatever the flag.
DrainKind(m) == "final"

Recv(m, phase) == [msg |-> m, phase |-> phase]

\* The history of the messages read keeps the first MaxRecv of them.
Remember(history, r) ==
    IF Len(history) < MaxRecv THEN Append(history, r) ELSE history

\* Mutant of PollTimesOut: the receive has no timeout and waits for a message.
PollTimesOut_Blocks(box) == FALSE

\* asyncio.wait_for(ws.receive_json(), timeout=...) raises TimeoutError when
\* no message has arrived by the end of the timeout: both receives are bounded.
PollTimesOut(box) == box = << >>

\* The server sends a message, which arrives at the client; it sends at most
\* MaxRecv messages after the acknowledgment.
ServerSend ==
    /\ wsOpen
    /\ pc \notin {"auth_send", "auth_recv", "done"}
    /\ Len(received) + Len(inbox) < MaxRecv
    /\ \E m \in ServerMsgs : inbox' = Append(inbox, m)
    /\ UNCHANGED << api_key, sourceVars, batchVars, pc, wsOpen, opened, sent,
                    auth_resp, packet_count, consumed, exhausted, received,
                    events, last_final, outcome, log, resampler, pcm_16k,
                    resampled >>

\* Mutant of AfterPoll: the poll is a loop that reads until it times out.
AfterPoll_PollsAgain == "poll"

\* After the message read by the poll has been dealt with, the try statement
\* is over and the loop over audio takes the next frame: one receive per send.
AfterPoll == "next_frame"

\* msg = await asyncio.wait_for(ws.receive_json(), timeout=0.01): a message
\* that has arrived is read and, if it is a transcript, an event is yielded;
\* or the poll times out (pass); or receive_json raises (closed connection,
\* malformed message).  Nothing but a transcript is acted on here.
Poll ==
    /\ pc = "poll"
    /\ \/ /\ inbox # << >>
          /\ LET m == Head(inbox)
             IN  /\ inbox' = Tail(inbox)
                 /\ received' = Remember(received, Recv(m, "active"))
                 /\ IF Emits(m)
                       THEN /\ events' = Append(events, SpeechEvent(ActiveKind(m), m))
                            /\ pc' = "yield_active"
                       ELSE /\ pc' = AfterPoll
                            /\ UNCHANGED events
          /\ UNCHANGED << wsOpen, outcome, log >>
       \/ /\ PollTimesOut(inbox)
          /\ pc' = "next_frame"
          /\ UNCHANGED << received, events, wsOpen, outcome, log, inbox >>
       \/ /\ Raise
          /\ UNCHANGED << received, events, inbox >>
    /\ UNCHANGED << sourceVars, batchVars, resampler, pcm_16k, resampled,
                    api_key, opened, sent, auth_resp, packet_count, consumed,
                    exhausted, last_final >>

\* The consumer asks for the next event: the generator resumes after the
\* yield of the poll and goes on to the next frame.
ResumeActive ==
    /\ pc = "yield_active"
    /\ pc' = AfterPoll
    /\ UNCHANGED << sourceVars, batchVars, resampler, pcm_16k, resampled, inbox,
                    api_key, wsOpen, opened, sent, auth_resp, packet_count,
                    consumed, exhausted, received, events, last_final,
                    outcome, log >>

\* await ws.send_json({"type": "commit", "total_packets": packet_count})
SendCommit ==
    /\ pc = "send_commit"
    /\ \/ /\ sent' = Append(sent, CommitMsg(packet_count))
          /\ pc' = "drain"
          /\ UNCHANGED << wsOpen, outcome, log >>
       \/ /\ Raise
          /\ UNCHANGED sent
    /\ UNCHANGED << sourceVars, batchVars, resampler, pcm_16k, resampled, inbox,
                    api_key, opened, auth_resp, packet_count, consumed,
                    exhausted, received, events, last_final >>

\* What the drain loop does with a message it has read: yield an event (and
\* break after it if the message is final), continue on "info", log and break
\* on "error", and fall through to the next iteration on anything else.
DrainStep(m) ==
    IF Emits(m) THEN "yield"
    ELSE IF m.status = "info" THEN "continue"
    ELSE IF m.status = "error" THEN "break"
    ELSE "loop"

\* msg = await asyncio.wait_for(ws.receive_json(), timeout=5.0) in `while True`.
Drain ==
    /\ pc = "drain"
    /\ \/ /\ inbox # << >>
          /\ inbox' = Tail(inbox)
          /\ LET m == Head(inbox) IN
               /\ received' = Remember(received, Recv(m, "drain"))
               /\ CASE DrainStep(m) = "yield" ->
                         /\ events' = Append(events, SpeechEvent(DrainKind(m), m))
                         /\ last_final' = Truthy(m.final)
                         /\ pc' = "yield_drain"
                         /\ UNCHANGED << wsOpen, outcome, log >>
                    [] DrainStep(m) = "break" ->
                         /\ Leave("drained", << "ws_error" >>)
                         /\ UNCHANGED << events, last_final >>
                    [] OTHER ->
                         /\ pc' = "drain"
                         /\ UNCHANGED << events, last_final, wsOpen, outcome, log >>
       \/ /\ PollTimesOut(inbox)
          /\ Leave("drained", << >>)
          /\ UNCHANGED << received, events, last_final, inbox >>
       \/ /\ Raise
          /\ UNCHANGED << received, events, last_final, inbox >>
    /\ UNCHANGED << sourceVars, batchVars, resampler, pcm_16k, resampled,
                    api_key, opened, sent, auth_resp, packet_count, consumed,
                    exhausted >>

\* The generator resumes after the yield of the drain loop:
\* if msg.get("final"): break; otherwise the loop reads on.
ResumeDrain ==
    /\ pc = "yield_drain"
    /\ IF last_final
          THEN Leave("drained", << >>)
          ELSE /\ pc' = "drain"
               /\ UNCHANGED << wsOpen, outcome, log >>
    /\ UNCHANGED << sourceVars, batchVars, resampler, pcm_16k, resampled, inbox,
                    api_key, opened, sent, auth_resp, packet_count, consumed,
                    exhausted, received, events, last_final >>

\* The task running process is cancelled while process waits at an await:
\* CancelledError is raised there, is not an Exception, and leaves process
\* through the context managers.
Cancel ==
    /\ pc \in AwaitPoints
    /\ Leave("cancelled", << >>)
    /\ UNCHANGED << sourceVars, batchVars, resampler, pcm_16k, resampled, inbox,
                    api_key, opened, sent, auth_resp, packet_count, consumed,
                    exhausted, received, events, last_final >>

\* The consumer stops iterating and closes the generator (aclose) while it is
\* suspended at a yield: GeneratorExit is raised at the yield.
ConsumerClose ==
    /\ pc \in YieldPoints
    /\ Leave("aclosed", << >>)
    /\ UNCHANGED << sourceVars, batchVars, resampler, pcm_16k, resampled, inbox,
                    api_key, opened, sent, auth_resp, packet_count, consumed,
                    exhausted, received, events, last_final >>

Next ==
    \/ CheckApiKey
    \/ Connect
    \/ SendAuth
    \/ RecvAuth
    \/ NextFrame
    \/ SendAppend
    \/ Poll
    \/ ResumeActive
    \/ SendCommit
    \/ Drain
    \/ ResumeDrain
    \/ Cancel
    \/ ConsumerClose
    \/ ServerSend

Spec == Init /\ [][Next]_vars

\* The steps of process itself: the event loop runs the generator whenever
\* what it awaits is over (a send went out, a receive returned or timed out,
\* the source handed over a frame or ended) and the consumer asked for the
\* next event.  Not the server's sends, a cancellation, or the consumer closing.
ClientStep ==
    \/ CheckApiKey
    \/ Connect
    \/ SendAuth
    \/ RecvAuth
    \/ NextFrame
    \/ SendAppend
    \/ Poll
    \/ ResumeActive
    \/ SendCommit
    \/ Drain
    \/ ResumeDrain

\* A step of process in which nothing raises.
ClientGoesOn == ClientStep /\ outcome' # "exception"

\* The session with a client that is never left waiting when it can go on:
\* anything may still raise, but nothing has to.
SpecLive == Init /\ [][Next]_vars /\ WF_vars(ClientGoesOn)

\* A server that goes on talking after the commit: whenever the client has
\* read what there was, another message that is no transcript and no error
\* (an "info", a text message without text, an unknown status) arrives before
\* the receive of the drain loop times out.
ServerKeepalive ==
    /\ pc = "drain"
    /\ wsOpen
    /\ inbox = << >>
    /\ \E m \in ServerMsgs :
         /\ ~Emits(m)
         /\ m.status # "error"
         /\ inbox' = << m >>
    /\ UNCHANGED << sourceVars, batchVars, resampler, pcm_16k, resampled,
                    pc, api_key, wsOpen, opened, sent, auth_resp, packet_count,
                    consumed, exhausted, received, events, last_final,
                    outcome, log >>

NextChatty ==
    \/ Next
    \/ ServerKeepalive

SpecChatty == Init /\ [][NextChatty]_vars /\ WF_vars(ClientGoesOn)

\* --------------------------------------- transcribe_with_wisprflow (REST)

CHUNK_SECONDS == 5

\* A text is a sequence of characters; 32 is the space.
IsSpace(c) == c = 32

\* str.strip(): the text without its leading and trailing whitespace.
RECURSIVE LStrip(_)
LStrip(t) == IF t # << >> /\ IsSpace(Head(t)) THEN LStrip(Tail(t)) ELSE t

RECURSIVE RStrip(_)
RStrip(t) ==
    IF t # << >> /\ IsSpace(t[Len(t)]) THEN RStrip(SubSeq(t, 1, Len(t) - 1))
    ELSE t

Strip(t) == RStrip(LStrip(t))

\* What the POST comes to: a response (its status; whether its JSON body has a
\* "text" field, and the field), a timeout of the request (asyncio.TimeoutError)
\* or another exception (network failure, a body that is not JSON).
Response(status, has_text, text) ==
    [status |-> status, has_text |-> has_text, text |-> text, err |-> "none"]

Failure(err) == [status |-> 0, has_text |-> FALSE, text |-> << >>, err |-> err]

HttpOutcomes ==
    { Response(200, TRUE, << 32, 104, 105 >>),
      Response(200, TRUE, << 32 >>),
      Response(200, FALSE, << >>),
      Response(500, FALSE, << >>),
      Failure("timeout"),
      Failure("network") }

\* The call has not returned yet; the call returned before any request.
Pending == Failure("pending")

NoKey == Failure("no_key")

\* The call was cancelled while it awaited the request.
Cancelled == Failure("cancelled")

\* The value transcribe_with_wisprflow returns: None, or a non-empty text.
None == [none |-> TRUE, text |-> << >>]

Text(t) == [none |-> FALSE, text |-> t]

\* if resp.status == 200: text = data.get("text", "").strip();
\* return text if text else None; else: return None; and None from both
\* except clauses and from the missing API key.
TranscribeReturn(o) ==
    IF o.err = "none" /\ o.status = 200
       THEN LET text == Strip(IF o.has_text THEN o.text ELSE << >>)
            IN  IF text # << >> THEN Text(text) ELSE None
       ELSE None

\* The logger.error call of transcribe_with_wisprflow, if it makes one.
TranscribeErrors(o) ==
    CASE o.err = "no_key" -> << [what |-> "api_key_not_set", status |-> 0] >>
      [] o.err = "timeout" -> << [what |-> "rest_timeout", status |-> 0] >>
      [] o.err = "network" -> << [what |-> "rest_exception", status |-> 0] >>
      [] o.err = "none" /\ o.status # 200 ->
             << [what |-> "rest_error", status |-> o.status] >>
      [] OTHER -> << >>

\* Mutant of Caught: the `except Exception` clause is missing.
Caught_TimeoutOnly(o) == o.err = "timeout"

\* except asyncio.TimeoutError / except Exception: every exception of the
\* request is caught inside transcribe_with_wisprflow.
Caught(o) == o.err \in {"timeout", "network"}

\* The call raises instead of returning.
Raises(o) == o.err \in {"timeout", "network"} /\ ~Caught(o)

\* Mutant of RequestsAfterReturn: a request that timed out is left running.
RequestsAfterReturn_TimeoutLeaks(n, o) == IF o.err = "timeout" THEN n ELSE n - 1

\* The requests in flight once a call has returned: the `async with` blocks of
\* the session and of the post have been left, the request is over.
RequestsAfterReturn(n, o) == n - 1

\* ------------------------------------------- WisprFlowSTTNode.process (batch)

BatchAwaitPoints == {"next_frame", "transcribing", "final_transcribing"}

BatchYieldPoints == {"yield", "final_yield"}

\* A call of transcribe_with_wisprflow: the chunk passed, whether it is the
\* one after the loop, what the request came to and the value returned, and
\* the clock and the `elapsed` of the moment the chunk was dispatched.
Call(audio, flush, o, at, elapsed) ==
    [audio |-> audio, flush |-> flush, outcome |-> o, ret |-> TranscribeReturn(o),
     at |-> at, elapsed |-> elapsed]

\* The record of a call once it is over with outcome o.
Over(c, o) == Call(c.audio, c.flush, o, c.at, c.elapsed)

\* The batch process ends.
LeaveB(how) ==
    /\ pcB' = "done"
    /\ outcomeB' = how

\* Mutant of ChunkReady: the buffer is sent with every frame once it holds
\* anything, whatever the time elapsed.
ChunkReady_NoTimer(elapsed, buffer) == Len(buffer) > 0

\* if elapsed >= CHUNK_SECONDS and len(pcm_buffer) > 0
ChunkReady(elapsed, buffer) == elapsed >= CHUNK_SECONDS /\ Len(buffer) > 0

\* Mutant of Remainder: the remainder is held to the timer too.
Remainder_Timed(elapsed, buffer) == elapsed >= CHUNK_SECONDS /\ Len(buffer) > 0

\* if pcm_buffer: after the loop, whatever the time elapsed.
Remainder(elapsed, buffer) == Len(buffer) > 0

\* Mutant of ResetChunk: the buffer is emptied, the timer runs on.
ResetChunk_KeepsTimer ==
    /\ pcm_buffer' = << >>
    /\ chunk_start' = chunk_start

\* Mutant of ResetChunk: the timer is reset, the buffer is kept.
ResetChunk_KeepsBuffer ==
    /\ pcm_buffer' = pcm_buffer
    /\ chunk_start' = now

\* # Reset for next chunk: pcm_buffer = bytearray(); chunk_start = time.monotonic()
ResetChunk ==
    /\ pcm_buffer' = << >>
    /\ chunk_start' = now

\* text = await transcribe_with_wisprflow(bytes(pcm_buffer), sample_rate=16000)
\* up to the await of the request.  Without an API key the call returns None
\* before any request, and the caller goes on at once: `if text` fails, and in
\* the loop the chunk is reset.
Dispatch(buffer, flush) ==
    IF api_key
       THEN /\ calls' = Append(calls, Call(buffer, flush, Pending, now, now - chunk_start))
            /\ inflight' = inflight + 1
            /\ pcB' = IF flush THEN "final_transcribing" ELSE "transcribing"
            /\ pcm_buffer' = buffer
            /\ UNCHANGED << chunk_start, logB, outcomeB >>
       ELSE /\ calls' = Append(calls, Call(buffer, flush, NoKey, now, now - chunk_start))
            /\ logB' = logB \o TranscribeErrors(NoKey)
            /\ UNCHANGED inflight
            /\ IF flush
                 THEN /\ LeaveB("completed")
                      /\ pcm_buffer' = buffer
                      /\ UNCHANGED chunk_start
                 ELSE /\ pcB' = "next_frame"
                      /\ ResetChunk
                      /\ UNCHANGED outcomeB

\* pcm_buffer = bytearray(); chunk_start = time.monotonic(); total_frames = 0;
\* then the first await of the loop over audio.
BatchStart ==
    /\ pcB = "idle"
    /\ pcB' = "next_frame"
    /\ chunk_start' = now
    /\ UNCHANGED << api_key, sourceVars, streamVars, pcm_buffer, now,
                    total_frames, resamplerB, buffered, calls, inflight,
                    eventsB, endedB, outcomeB, logB >>

\* async for frame in audio.  A frame: the resampler is set up on the first
\* one, the frame's 16 kHz bytes are buffered, and the chunk is sent if it is
\* ready.  The end of the source: the remainder is sent.  The source raises:
\* nothing catches it.
BatchNextFrame ==
    /\ pcB = "next_frame"
    /\ \/ /\ total_frames < MaxFrames
          /\ LET frame == AudioFrame(total_frames + 1, rate_in, shape)
                 r == IF total_frames = 0
                         THEN IF frame.sample_rate # TargetRate
                                 THEN NewResampler(frame.sample_rate)
                                 ELSE NoResampler
                         ELSE resamplerB
                 buffer == pcm_buffer \o Pcm16k(r, frame)
             IN  /\ resamplerB' = IF r.on THEN PushState(r, frame) ELSE r
                 /\ buffered' = buffered \o Pcm16k(r, frame)
                 /\ IF ChunkReady(now - chunk_start, buffer)
                       THEN Dispatch(buffer, FALSE)
                       ELSE /\ pcm_buffer' = buffer
                            /\ UNCHANGED << pcB, chunk_start, calls, inflight,
                                            logB, outcomeB >>
          /\ total_frames' = total_frames + 1
          /\ UNCHANGED endedB
       \/ /\ endedB' = TRUE
          /\ IF Remainder(now - chunk_start, pcm_buffer)
                THEN Dispatch(pcm_buffer, TRUE)
                ELSE /\ LeaveB("completed")
                     /\ UNCHANGED << pcm_buffer, chunk_start, calls, inflight,
                                     logB >>
          /\ UNCHANGED << total_frames, resamplerB, buffered >>
       \/ /\ LeaveB("exception")
          /\ UNCHANGED << pcm_buffer, chunk_start, calls, inflight, logB,
                          total_frames, resamplerB, buffered, endedB >>
    /\ UNCHANGED << api_key, sourceVars, streamVars, now, eventsB >>

\* The request comes to something and transcribe_with_wisprflow returns (an
\* exception it did not catch would leave process, which catches none).
\* if text: the event is yielded; else, in the loop, the chunk is reset, and
\* after the loop process ends.
BatchTranscribeReturn ==
    /\ pcB \in {"transcribing", "final_transcribing"}
    /\ \E o \in HttpOutcomes :
         LET ret == TranscribeReturn(o) IN
         /\ calls' = [calls EXCEPT ![Len(calls)] =
                         Over(calls[Len(calls)], o)]
         /\ logB' = logB \o TranscribeErrors(o)
         /\ inflight' = RequestsAfterReturn(inflight, o)
         /\ CASE Raises(o) ->
                    /\ LeaveB("exception")
                    /\ UNCHANGED << eventsB, pcm_buffer, chunk_start >>
              [] ~Raises(o) /\ ~ret.none ->
                    /\ eventsB' = Append(eventsB, SpeechEvent("final", ret))
                    /\ pcB' = IF pcB = "transcribing" THEN "yield" ELSE "final_yield"
                    /\ UNCHANGED << pcm_buffer, chunk_start, outcomeB >>
              [] OTHER ->
                    /\ UNCHANGED eventsB
                    /\ IF pcB = "transcribing"
                          THEN /\ pcB' = "next_frame"
                               /\ ResetChunk
                               /\ UNCHANGED outcomeB
                          ELSE /\ LeaveB("completed")
                               /\ UNCHANGED << pcm_buffer, chunk_start >>
    /\ UNCHANGED << api_key, sourceVars, streamVars, now, total_frames,
                    resamplerB, buffered, endedB >>

\* The consumer asks for the next event: in the loop the chunk is reset and
\* the next frame awaited; after the loop process ends.
BatchResume ==
    /\ pcB \in BatchYieldPoints
    /\ IF pcB = "yield"
          THEN /\ pcB' = "next_frame"
               /\ ResetChunk
               /\ UNCHANGED outcomeB
          ELSE /\ LeaveB("completed")
               /\ UNCHANGED << pcm_buffer, chunk_start >>
    /\ UNCHANGED << api_key, sourceVars, streamVars, now, total_frames,
                    resamplerB, buffered, calls, inflight, eventsB, endedB,
                    logB >>

\* A second passes while the batch process waits.
BatchTick ==
    /\ pcB \in BatchAwaitPoints \cup BatchYieldPoints
    /\ now < MaxTime
    /\ now' = now + 1
    /\ UNCHANGED << api_key, sourceVars, streamVars, pcB, pcm_buffer,
                    chunk_start, total_frames, resamplerB, buffered, calls,
                    inflight, eventsB, endedB, outcomeB, logB >>

\* The task is cancelled at an await; a request in flight is cancelled with it.
BatchCancel ==
    /\ pcB \in BatchAwaitPoints
    /\ LeaveB("cancelled")
    /\ inflight' = 0
    /\ calls' = IF inflight > 0
                   THEN [calls EXCEPT ![Len(calls)] =
                           Over(calls[Len(calls)], Cancelled)]
                   ELSE calls
    /\ UNCHANGED << api_key, sourceVars, streamVars, pcm_buffer, chunk_start,
                    now, total_frames, resamplerB, buffered, eventsB,
                    endedB, logB >>

\* The consumer closes the generator at a yield.
BatchConsumerClose ==
    /\ pcB \in BatchYieldPoints
    /\ LeaveB("aclosed")
    /\ UNCHANGED << api_key, sourceVars, streamVars, pcm_buffer, chunk_start,
                    now, total_frames, resamplerB, buffered, calls, inflight,
                    eventsB, endedB, logB >>

NextBatch ==
    \/ BatchStart
    \/ BatchNextFrame
    \/ BatchTranscribeReturn
    \/ BatchResume
    \/ BatchTick
    \/ BatchCancel
    \/ BatchConsumerClose

SpecBatch == Init /\ [][NextBatch]_vars

\* ------------------------------------------------------------ either client

\* A session runs one of the two clients: the streaming one or the batch one.
NextBoth ==
    \/ Next /\ pcB = "idle"
    \/ NextBatch /\ pc = "start"

SpecBoth == Init /\ [][NextBoth]_vars

\* --------------------------------------------------------------- type check

TypeOK ==
    /\ pc \in {"start", "done"} \cup AwaitPoints \cup YieldPoints
    /\ api_key \in BOOLEAN
    /\ wsOpen \in BOOLEAN
    /\ opened \in BOOLEAN
    /\ packet_count \in 0..MaxFrames
    /\ consumed \in 0..MaxFrames
    /\ Len(received) <= MaxRecv
    /\ Len(events) <= Len(received)
    /\ \A i \in 1..Len(received) :
          /\ received[i].msg \in ServerMsgs
          /\ received[i].msg.final \in FinalFlags
    /\ outcome \in {"running", "no_api_key", "auth_failed", "drained",
                    "exception", "cancelled", "aclosed"}
    /\ rate_in \in {TargetRate, CaptureRate}
    /\ shape \in {"pcm", "silent"}
    /\ Len(inbox) <= MaxRecv
    /\ \A i \in 1..Len(resampled) : resampled[i] \in 0..255
    /\ pcB \in {"idle", "done"} \cup BatchAwaitPoints \cup BatchYieldPoints
    /\ now \in 0..MaxTime
    /\ chunk_start \in 0..now
    /\ total_frames \in 0..MaxFrames
    /\ inflight \in 0..1
    /\ \A i \in 1..Len(buffered) : buffered[i] \in 0..255
    /\ Len(calls) <= total_frames + 1
    /\ endedB \in BOOLEAN
    /\ outcomeB \in {"running", "completed", "exception", "cancelled",
                     "aclosed"}

\* ------------------------------------------------- what the claims speak of

IsAppend(x) == x.type = "append"

IsCommit(x) == x.type = "commit"

Appends == SelectSeq(sent, IsAppend)

Commits == SelectSeq(sent, IsCommit)

AckRead == auth_resp # NoMsg

AckSaysAuth == auth_resp.status = "auth"

\* A received message of status "text" with a non-empty text.
IsTextRecord(r) == r.msg.status = "text" /\ r.msg.text # ""

TextRecords == SelectSeq(received, IsTextRecord)

ErrorReceived == \E i \in 1..Len(received) : received[i].msg.status = "error"

FlagKind(m) == IF m.final = "true" THEN "final" ELSE "interim"

\* ------------------------------------------------------------------ claims

\* C1: no append (and no commit) is sent before an acknowledgment of status
\* "auth" has been read; an acknowledgment of any other status leaves the
\* session with zero append and zero commit messages sent.  The only message
\* sent before the acknowledgment is the one auth message.
C1_NoAppendBeforeAuth ==
    /\ (Len(Appends) > 0 \/ Len(Commits) > 0) => (AckRead /\ AckSaysAuth)
    /\ (AckRead /\ ~AckSaysAuth) => (Len(Appends) = 0 /\ Len(Commits) = 0)
    /\ ~AckRead => sent \in {<< >>, << AuthMsg >>}

\* C1 witness: the acknowledgment was an error message, and the session ended
\* having sent the auth message alone.
C1_Witness ==
    /\ pc = "done"
    /\ auth_resp = Msg("error", "", "absent")
    /\ sent = << AuthMsg >>

\* C2 as stated: the positions sent so far are 0..k-1 in send order, k being
\* the number of frames consumed from the upstream source.
C2_PositionsCountConsumed ==
    /\ Len(Appends) = consumed
    /\ \A i \in 1..Len(Appends) : Appends[i].position = i - 1

\* C2 amended: the positions sent so far are 0..k-1 in send order, k being the
\* number of append messages sent; the frames consumed are k, or k + 1 while
\* the send of the latest frame is pending or after that send raised or was
\* cancelled.
C2_PositionsCountAppends ==
    /\ \A i \in 1..Len(Appends) : Appends[i].position = i - 1
    /\ Len(Appends) = packet_count
    /\ consumed \in {Len(Appends), Len(Appends) + 1}
    /\ pc \in {"next_frame", "poll", "yield_active", "send_commit", "drain",
               "yield_drain"} => consumed = Len(Appends)
    /\ pc = "send_append" => consumed = Len(Appends) + 1

\* C2 witness: three frames consumed and three appends sent.
C2_Witness ==
    /\ pc = "poll"
    /\ consumed = 3
    /\ Len(Appends) = 3

\* C3 as stated: once the upstream source is exhausted, the session ends with
\* exactly one commit sent, after every append, with total_packets the number
\* of appends.
C3_ExhaustedCommitsOnce ==
    (pc = "done" /\ exhausted) =>
        /\ Len(Commits) = 1
        /\ sent[Len(sent)].type = "commit"
        /\ sent[Len(sent)].total_packets = Len(Appends)

\* C3 amended: a commit is sent only after the upstream source is exhausted, at
\* most once, and exactly once when its send completes (it is not sent when
\* that send raises or the task is cancelled while it is pending); the commit is
\* the last message sent, so it follows every append and nothing follows it,
\* and its total_packets is the number of appends sent.
C3_CommitOnceAndLast ==
    /\ Len(Commits) <= 1
    /\ Len(Commits) = 1 =>
          /\ exhausted
          /\ sent[Len(sent)].type = "commit"
          /\ sent[Len(sent)].total_packets = Len(Appends)
    /\ (pc \in {"drain", "yield_drain"} \/ (exhausted /\ outcome \in {"drained", "aclosed"}))
          => Len(Commits) = 1
    /\ (exhausted /\ Len(Commits) = 0) =>
          (pc = "send_commit" \/ outcome \in {"exception", "cancelled"})

\* C3 witness: two appends, then the commit, and the drain ended normally.
C3_Witness ==
    /\ pc = "done"
    /\ outcome = "drained"
    /\ Len(Appends) = 2
    /\ sent[Len(sent)] = CommitMsg(2)

\* C4 as stated: every event is tagged by the final flag of the message that
\* produced it, in the active phase and in the draining phase alike.
C4_KindFollowsFlag ==
    \A i \in 1..Len(events) :
        i <= Len(TextRecords) => events[i].kind = FlagKind(TextRecords[i].msg)

\* C5: the texts of the events are, in order, the texts of the received
\* messages of status "text" with a non-empty text; and three appends with
\* interim "hello" and final "hello world" read in the active phase, then a
\* server close after the commit, yield exactly those two events.
C5_EventsAreTextMessages ==
    /\ Len(events) = Len(TextRecords)
    /\ \A i \in 1..Len(events) :
          /\ events[i].text = TextRecords[i].msg.text
          /\ events[i].language = "ka"
    /\ ( /\ pc = "done"
         /\ Len(Appends) = 3
         /\ Len(Commits) = 1
         /\ received = << Recv(Msg("text", "hello", "false"), "active"),
                          Recv(Msg("text", "hello world", "true"), "active") >> )
       => events = << [kind |-> "interim", text |-> "hello", language |-> "ka"],
                      [kind |-> "final", text |-> "hello world", language |-> "ka"] >>

\* C5 witness: the end-to-end scenario, ended by the server closing the
\* connection after the commit.
C5_Witness ==
    /\ pc = "done"
    /\ outcome = "exception"
    /\ Len(Appends) = 3
    /\ Len(Commits) = 1
    /\ received = << Recv(Msg("text", "hello", "false"), "active"),
                     Recv(Msg("text", "hello world", "true"), "active") >>
    /\ Len(events) = 2

\* C6 as stated: the drain loop is never about to read another message once it
\* has read a message marked final (whatever its text) or a message of status
\* "error".
C6_DrainStopsOnFinalOrError ==
    pc = "drain" =>
        \A i \in 1..Len(received) :
            received[i].phase = "drain" =>
                /\ received[i].msg.final # "true"
                /\ received[i].msg.status # "error"

\* C7: whenever process has finished, the connection is closed.
C7_ClosedWhenFinished ==
    /\ pc = "done" => ~wsOpen
    /\ wsOpen => opened

\* C7 witness: the task was cancelled in mid-stream, after the connection was
\* opened and an append sent.
C7_Witness ==
    /\ pc = "done"
    /\ opened
    /\ outcome = "cancelled"
    /\ Len(Appends) >= 1
    /\ Len(Commits) = 0

\* C8 as stated: a failed acknowledgment ends the session in an error the
\* caller is handed, different from what a normally drained session hands it.
C8_AuthFailureSurfaced ==
    (pc = "done" /\ AckRead /\ ~AckSaysAuth) =>
        /\ Surfaced(outcome) = "AuthenticationError"
        /\ Surfaced(outcome) # Surfaced("drained")

\* C9 as stated: once a message of status "error" has been read, in either
\* phase, no further message is sent.
C9_ErrorIsFatal == [][ErrorReceived => sent' = sent]_vars

\* C10 as stated: a session cancelled or closed by its consumer in the active
\* phase, with at least one append sent, has sent the commit by the time it
\* has ended.
C10_CancelStillCommits ==
    ( /\ pc = "done"
      /\ outcome \in {"cancelled", "aclosed"}
      /\ ~exhausted
      /\ Len(Appends) >= 1 )
    => Len(Commits) = 1

\* The bytes a Base64 text stands for (the inverse of Base64): how many, and
\* the i-th.
Base64Len(c) ==
    3 * (Len(c) \div 4)
    - (IF c = << >> THEN 0
       ELSE IF c[Len(c) - 1] = 64 THEN 2
       ELSE IF c[Len(c)] = 64 THEN 1 ELSE 0)

Base64Byte(c, i) ==
    LET q == (i - 1) \div 3
        r == (i - 1) % 3
        c1 == c[4 * q + 1]
        c2 == c[4 * q + 2]
        c3 == IF c[4 * q + 3] = 64 THEN 0 ELSE c[4 * q + 3]
        c4 == IF c[4 * q + 4] = 64 THEN 0 ELSE c[4 * q + 4]
    IN  CASE r = 0 -> c1 * 4 + c2 \div 16
          [] r = 1 -> (c2 % 16) * 16 + c3 \div 4
          [] r = 2 -> (c3 % 4) * 64 + c4

\* The PCM an append message carries: its WAV file without the 44-byte header.
WavHeaderLen == Len(WavHeader(0, TargetRate))

PcmOf(x) ==
    [i \in 1..(Base64Len(x.audio) - WavHeaderLen) |->
        Base64Byte(x.audio, WavHeaderLen + i)]

RECURSIVE Joined(_)
Joined(chunks) ==
    IF chunks = << >> THEN << >> ELSE Head(chunks) \o Joined(Tail(chunks))

IsPrefix(a, b) == Len(a) <= Len(b) /\ SubSeq(b, 1, Len(a)) = a

\* The bytes dispatched so far: the chunks passed to transcribe_with_wisprflow,
\* in order; the PCM of the append messages sent, in order.
Dispatched == Joined([i \in 1..Len(calls) |-> calls[i].audio])

Appended == Joined([i \in 1..Len(Appends) |-> PcmOf(Appends[i])])

\* C11: the chunks passed to transcribe_with_wisprflow, joined in dispatch
\* order, are at every moment the buffered 16 kHz bytes up to those still
\* waiting in the buffer, and all of them once process has completed: no byte
\* twice, none dropped.  Likewise the PCM of the append messages sent is the
\* resampled bytes of the consumed frames, up to the frame whose send is
\* pending, and all of them once the source is exhausted.
C11_EveryByteOnce ==
    LET dispatched == Dispatched
        appended == Appended
    IN  /\ IsPrefix(dispatched, buffered)
        /\ pcB = "next_frame" => dispatched \o pcm_buffer = buffered
        /\ pcB \in {"transcribing", "final_transcribing"} \cup BatchYieldPoints
               => dispatched = buffered
        /\ outcomeB = "completed" => dispatched = buffered
        /\ IsPrefix(appended, resampled)
        /\ pc = "send_append" => appended \o pcm_16k = resampled
        /\ pc \in {"poll", "yield_active", "next_frame"} => appended = resampled
        /\ exhausted => appended = resampled

\* Resampled audio went out in two chunks, a timed one and the remainder, and
\* process completed.
C11_Witness ==
    /\ api_key
    /\ outcomeB = "completed"
    /\ rate_in = CaptureRate
    /\ Len(calls) = 2
    /\ calls[1].audio # << >>
    /\ calls[2].audio # << >>
    /\ ~calls[1].flush
    /\ calls[2].flush

\* The chunks dispatched in the loop, and those dispatched after it.
IsFlush(c) == c.flush

IsMidStream(c) == ~c.flush

MidStream == SelectSeq(calls, IsMidStream)

Flushes == SelectSeq(calls, IsFlush)

\* The samples of the frames consumed by the batch process, all together.
RECURSIVE SamplesOf(_)
SamplesOf(n) ==
    IF n = 0 THEN 0
    ELSE Len(AudioFrame(n, rate_in, shape).data) + SamplesOf(n - 1)

\* ceil(D / T) for the audio duration D of the frames consumed, D being their
\* samples (each standing for BlockSamples) over their rate, and T the threshold.
CeilOfDuration ==
    LET samples == SamplesOf(total_frames) * BlockSamples
        perChunk == rate_in * CHUNK_SECONDS
    IN  (samples + perChunk - 1) \div perChunk

HasReturned(c) == c.outcome # Pending

Failed(c) ==
    \/ c.outcome.err \in {"timeout", "network"}
    \/ c.outcome.err = "none" /\ c.outcome.status # 200

Spoke(c) ==
    /\ c.outcome.err = "none"
    /\ c.outcome.status = 200
    /\ c.outcome.has_text
    /\ Strip(c.outcome.text) # << >>

SpokenEvent(c) == SpeechEvent("final", [text |-> Strip(c.outcome.text)])

SpokenCalls == SelectSeq(calls, Spoke)

\* A chunk's transcription fails in this step.
ChunkFails ==
    /\ pcB \in {"transcribing", "final_transcribing"}
    /\ HasReturned(calls'[Len(calls')])
    /\ Failed(calls'[Len(calls')])

\* C13: a failed transcription of a chunk does not end the stream.  When the
\* call of a chunk dispatched in the loop fails, process goes back to the
\* source for the next frame with an empty buffer; when the call of the final
\* chunk fails, process completes; no failure leaves process with an exception.
\* And whatever failed before, each chunk that comes back with a non-empty text
\* has its event: the events are those of the calls that spoke, in order.
C13_FailureDoesNotEndStream ==
    /\ [][ChunkFails =>
            /\ outcomeB' # "exception"
            /\ pcB = "transcribing"
                  => pcB' = "next_frame" /\ pcm_buffer' = << >> /\ ~endedB'
            /\ pcB = "final_transcribing" => outcomeB' = "completed"]_vars
    /\ [](eventsB = [i \in 1..Len(SpokenCalls) |-> SpokenEvent(SpokenCalls[i])])

\* The first chunk came back with HTTP 500, a network failure and the like;
\* frames were consumed after it, and a later chunk was sent and gave its event.
C13_Witness ==
    /\ Len(calls) = 3
    /\ calls[1].outcome = Response(500, FALSE, << >>)
    /\ calls[2].outcome = Failure("network")
    /\ Spoke(calls[3])
    /\ Len(eventsB) = 1
    /\ total_frames = 3

\* The step in which the loop over audio finds the source at its end.
StreamEnds == ~endedB /\ endedB'

\* C14: when the frame stream ends, a non-empty buffer is passed to
\* transcribe_with_wisprflow in that very step, whole and once, however little
\* time has elapsed since the timer was set; an empty buffer (no frame, no
\* byte, or nothing since the last dispatch) makes no call and process is
\* over; and after the end of the stream no further chunk is dispatched.
C14_RemainderFlushedOnce ==
    /\ [][StreamEnds =>
            IF pcm_buffer # << >>
               THEN /\ Len(calls') = Len(calls) + 1
                    /\ calls'[Len(calls')].audio = pcm_buffer
                    /\ calls'[Len(calls')].flush
               ELSE /\ calls' = calls
                    /\ pcB' = "done"
                    /\ outcomeB' = "completed"]_vars
    /\ [][endedB => Len(calls') = Len(calls)]_vars
    /\ [](Len(Flushes) <= 1)

\* The remainder went out less than CHUNK_SECONDS after the timer was set,
\* right after a chunk dispatched in the loop.
C14_Witness ==
    /\ api_key
    /\ endedB
    /\ Len(MidStream) = 1
    /\ Len(Flushes) = 1
    /\ now - chunk_start < CHUNK_SECONDS

\* A call that came back with HTTP 200 and an empty or missing text.
NoSpeech(c) ==
    /\ c.outcome.err = "none"
    /\ c.outcome.status = 200
    /\ Strip(IF c.outcome.has_text THEN c.outcome.text ELSE << >>) = << >>

\* C15: transcribe_with_wisprflow tells a failure (an HTTP status other than
\* 200, a network failure, a timeout) from "no speech" (HTTP 200 with an empty
\* or missing text): a failed call and a no-speech call never hand the caller
\* the same value.
C15_FailureToldFromNoSpeech ==
    \A i, j \in 1..Len(calls) :
        Failed(calls[i]) /\ NoSpeech(calls[j]) => calls[i].ret # calls[j].ret

\* What the consumer of the batch generator is handed at its end: process has
\* no try statement, so a return ends the iteration and anything raised in it
\* goes to the consumer.
SurfacedB(how) ==
    CASE how = "completed" -> "StopAsyncIteration"
      [] how = "exception" -> "Exception"
      [] how = "cancelled" -> "CancelledError"
      [] how = "aclosed" -> "GeneratorExit"
      [] OTHER -> "none"

\* C16: without an API key both clients fail with a configuration error the
\* caller is handed, before any network activity: no connection is opened, no
\* request is issued, no frame is consumed.
C16_MissingKeyIsFatal ==
    ~api_key =>
        /\ ~opened
        /\ inflight = 0
        /\ consumed = 0
        /\ total_frames = 0
        /\ pc = "done" => Surfaced(outcome) = "ConfigurationError"
        /\ pcB = "done" => SurfacedB(outcomeB) = "ConfigurationError"

\* Every frame the source delivered went out as an append, and the commit
\* after them.
AllSentAndCommitted ==
    /\ exhausted
    /\ Len(Appends) = consumed
    /\ Len(Commits) = 1

\* The connection broke (a send or a receive raised, the source raised), the
\* task was cancelled, or the consumer stopped pulling.
SessionBroken == outcome \in {"exception", "cancelled", "aclosed"}

\* C17: once the acknowledgment has said "auth", whatever the server sends or
\* does not send, every frame of the (finite) source is eventually sent as an
\* append and the commit is eventually sent, unless the connection breaks or
\* the consumer stops; a poll for a message never holds up the next send, as it
\* times out.
C17_SendPathLive ==
    (AckRead /\ AckSaysAuth) ~> (AllSentAndCommitted \/ SessionBroken)

\* The server never said a word after the acknowledgment, and every frame and
\* the commit went out.
C17_Witness ==
    /\ AllSentAndCommitted
    /\ consumed = MaxFrames
    /\ received = << >>
    /\ inbox = << >>
    /\ ~SessionBroken

\* C18: the draining phase always ends and the connection is closed, whatever
\* the server does after the commit, a server that keeps sending "info",
\* empty-text or unknown-status messages within the timeout included.
C18_DrainTerminates == (pc = "drain") ~> (pc = "done" /\ ~wsOpen)

\* A well-formed message the session has no use for after the handshake: its
\* status is none of those the code tells apart.
Unexpected(m) == m.status \notin {"text", "info", "error"}

UnexpectedReceived == \E i \in 1..Len(received) : Unexpected(received[i].msg)

\* C19: after the handshake an unexpected message, a malformed one or a
\* connection failure (what makes a send or a receive raise) takes the session
\* straight to closed: nothing is sent after it, the consumer is handed no
\* exception, and the events yielded before it stay as they are.
C19_ProtocolErrorClosesSession ==
    /\ [][UnexpectedReceived => sent' = sent]_vars
    /\ [][outcome = "exception" => sent' = sent /\ events' = events]_vars
    /\ [](outcome = "exception" =>
            /\ pc = "done"
            /\ ~wsOpen
            /\ Surfaced(outcome) = "StopAsyncIteration")

\* The requests of the batch client that have been started and have not
\* returned, by the record of the calls.
PendingCalls == { i \in 1..Len(calls) : ~HasReturned(calls[i]) }

\* C20: one dispatch at a time.  Batch: at most one request is in flight, it
\* is the one of the latest chunk and process is waiting for it, so no request
\* starts before the previous one has returned; the events are those of the
\* chunks that came back with a text, in chunk order, none or one per chunk.
\* Streaming: while the send of an append is pending, the appends of all the
\* frames consumed before have been sent already.
C20_OneDispatchAtATime ==
    /\ inflight <= 1
    /\ inflight = Cardinality(PendingCalls)
    /\ PendingCalls \subseteq {Len(calls)}
    /\ PendingCalls # {} <=> pcB \in {"transcribing", "final_transcribing"}
    /\ Len(eventsB) <= Len(calls)
    /\ eventsB = [i \in 1..Len(SpokenCalls) |-> SpokenEvent(SpokenCalls[i])]
    /\ pc = "send_append" =>
          /\ Len(Appends) = packet_count
          /\ consumed = packet_count + 1

\* A later chunk's request is in flight after the first one's timed out.
C20_Witness ==
    /\ inflight = 1
    /\ Len(calls) >= 2
    /\ calls[1].outcome = Failure("timeout")
    /\ ~HasReturned(calls[Len(calls)])
    /\ pcB = "transcribing"

\* The generator goes back to the loop over audio after a chunk dispatched in
\* the loop: its call returned without a text, or the consumer resumed it
\* after the event.
BackToLoop == pcB \in {"transcribing", "yield"} /\ pcB' = "next_frame"

\* C21: before the stream ends a chunk is dispatched only when CHUNK_SECONDS
\* or more have elapsed since the timer was set and the buffer is not empty;
\* when the loop goes on after such a dispatch the buffer is empty and the
\* timer is set to the clock, and the timer is never ahead of the clock nor
\* behind the last dispatch while frames are awaited; so two chunks dispatched
\* in the loop are CHUNK_SECONDS or more apart.
C21_DispatchOnlyWhenDue ==
    /\ [](\A i \in 1..Len(MidStream) :
             /\ MidStream[i].elapsed >= CHUNK_SECONDS
             /\ MidStream[i].audio # << >>)
    /\ [](\A i, j \in 1..Len(MidStream) :
             i < j => MidStream[j].at - MidStream[i].at >= CHUNK_SECONDS)
    /\ [](pcB = "next_frame" /\ calls # << >> =>
             /\ calls[Len(calls)].at <= chunk_start
             /\ chunk_start <= now)
    /\ [][BackToLoop => pcm_buffer' = << >> /\ chunk_start' = now]_vars

\* Two chunks went out in the loop; the second one's transcription was slow, or
\* the consumer was, so that the timer was set later than the dispatch.
C21_Witness ==
    /\ api_key
    /\ Len(MidStream) = 2
    /\ pcB = "next_frame"
    /\ chunk_start > MidStream[2].at
    /\ pcm_buffer = << >>

\* The messages read by the poll of the active phase.
IsActiveRecord(r) == r.phase = "active"

ActiveReads == SelectSeq(received, IsActiveRecord)

\* C22: in the active phase at most one server message is read per append
\* sent: the poll that follows a send reads one message at most, and nothing
\* is read anywhere but in that poll and in the drain loop.  So before the
\* commit the events are no more than the appends sent, and the messages
\* beyond that wait unread for the drain loop.
C22_OneReadPerAppend ==
    /\ [](Len(ActiveReads) <= Len(Appends))
    /\ [](pc = "poll" => Len(ActiveReads) < Len(Appends))
    /\ [](Len(Commits) = 0 => Len(events) <= Len(Appends))
    /\ [][Len(inbox') < Len(inbox) =>
            /\ pc \in {"poll", "drain"}
            /\ inbox' = Tail(inbox)
            /\ Len(received') = Len(received) + 1]_vars
    /\ [][received' # received => pc \in {"poll", "drain"}]_vars

\* One append was sent and its poll read one message; a second message the
\* server sent meanwhile is still unread when the source has ended and the
\* commit is about to be sent.
C22_Witness ==
    /\ pc = "send_commit"
    /\ exhausted
    /\ Len(Appends) = 1
    /\ Len(ActiveReads) = 1
    /\ Len(inbox) = 1
    /\ Len(Commits) = 0

====
